---- MODULE Spec2Model ----
(***************************************************************************)
(* The line editor of file-editor/main.go as a state machine.              *)
(*                                                                         *)
(* A string is a sequence of one-character strings, the line buffer is a   *)
(* sequence of strings, the file on disk is a sequence of bytes (or        *)
(* NoFile).  One action per command of the dispatch loop in main(); every  *)
(* action covers the whole case of the switch, the call into FileEditor    *)
(* included.                                                               *)
(***************************************************************************)
EXTENDS Integers, Sequences, FiniteSets, TLC

VARIABLES
    lines,      \* FileEditor.lines
    modified,   \* FileEditor.modified
    clipboard,  \* main: var clipboard []string
    disk,       \* the bytes of the file named fe.filename, or NoFile
    pc,         \* "loop": at the prompt; "done": the process has ended
    exitCode,   \* the status the process ended with (-1 while it runs)
    command,    \* main: parts[0] of the command that was dispatched last
    err,        \* the error that command reported ("" for nil)
    matches,    \* the result of the last search
    prompted,   \* the last command asked "Save before quitting?"
    nread       \* how many command lines the loop has read from stdin

vars == <<lines, modified, clipboard, disk, pc, exitCode, command, err,
          matches, prompted, nread>>

-----------------------------------------------------------------------------
(* Bounds of the model *)

MaxCmds == 2        \* the command lines stdin holds before it ends

-----------------------------------------------------------------------------
(* Strings *)

LF == "\n"
CR == "\r"
\* the file does not exist: a value that is no sequence of bytes
NoFile == <<"NoFile">>

\* strings.Join(parts[i:], " ") of at least one field: never empty
Texts == {<<"a">>, <<"b", "b">>}

\* strconv.Atoi(parts[1]) succeeded: any integer; the model tries the ones
\* around the ends of a buffer of n lines
LineNums(n) == 0..(n + 2)

\* Go's s[lo:hi] on a sequence (0-based, hi exclusive)
Slice(s, lo, hi) == SubSeq(s, lo + 1, hi)

\* Go's append(s, t...) as a value
GoAppend(s, t) == s \o t

-----------------------------------------------------------------------------
(* The regexp package, for the patterns the model types at the prompt:     *)
(* a literal string, c* for a character c, and "(" which does not          *)
(* compile.  Positions are Go's 0-based byte offsets.                      *)

Patterns == {<<"a">>, <<"a", "b">>, <<"a", "*">>, <<"(">>}

\* replacement templates: literals, $0 (the match) and $1 (no such group)
Repls == {<<"a">>, <<"b", "b">>, <<"$", "0">>, <<"$", "1">>}

\* regexp.Compile: an unclosed "(" is the error "missing closing )"
Compile(pattern) ==
    IF \E i \in 1..Len(pattern) : pattern[i] = "("
    THEN [ok |-> FALSE, kind |-> "bad", s |-> <<>>]
    ELSE IF Len(pattern) > 1 /\ pattern[Len(pattern)] = "*"
    THEN [ok |-> TRUE, kind |-> "star", s |-> Slice(pattern, 0, Len(pattern) - 1)]
    ELSE [ok |-> TRUE, kind |-> "lit", s |-> pattern]

SetMin(S) == CHOOSE i \in S : \A j \in S : i <= j

\* the length of the longest run of character c in src that starts at pos
RECURSIVE Run(_, _, _)
Run(src, pos, c) ==
    IF pos < Len(src) /\ src[pos + 1] = c THEN 1 + Run(src, pos + 1, c) ELSE 0

\* the leftmost match of re in src that starts at pos or later:
\* <<start, end>>, or <<>> when there is none
Find(re, src, pos) ==
    IF re.kind = "star"
    THEN <<pos, pos + Run(src, pos, re.s[1])>>
    ELSE LET at == {i \in pos..(Len(src) - Len(re.s)) :
                        Slice(src, i, i + Len(re.s)) = re.s}
         IN  IF at = {} THEN <<>> ELSE <<SetMin(at), SetMin(at) + Len(re.s)>>

\* Regexp.MatchString: a match anywhere in the line
MatchString(re, src) == Find(re, src, 0) # <<>>

\* Regexp.expand of a template for the match m of src
Expand(repl, src, m) ==
    IF repl = <<"$", "0">> THEN Slice(src, m[1], m[2])
    ELSE IF repl = <<"$", "1">> THEN <<>>
    ELSE repl

\* the loop of Regexp.replaceAll
RECURSIVE ReplaceLoop(_, _, _, _, _, _)
ReplaceLoop(re, src, repl, searchPos, lastMatchEnd, buf) ==
    IF searchPos > Len(src)
    THEN GoAppend(buf, Slice(src, lastMatchEnd, Len(src)))
    ELSE LET a == Find(re, src, searchPos) IN
         IF a = <<>>
         THEN GoAppend(buf, Slice(src, lastMatchEnd, Len(src)))
         ELSE LET copied == GoAppend(buf, Slice(src, lastMatchEnd, a[1]))
                  buf2 == IF a[2] > lastMatchEnd \/ a[1] = 0
                          THEN GoAppend(copied, Expand(repl, src, a))
                          ELSE copied
                  width == IF searchPos < Len(src) THEN 1 ELSE 0
                  next == IF searchPos + width > a[2] THEN searchPos + width
                          ELSE IF searchPos + 1 > a[2] THEN searchPos + 1
                          ELSE a[2]
              IN  ReplaceLoop(re, src, repl, next, a[2], buf2)

\* Regexp.ReplaceAllString
ReplaceAllString(re, src, repl) == ReplaceLoop(re, src, repl, 0, 0, <<>>)

-----------------------------------------------------------------------------
(* FileEditor: the methods as functions of the line sequence *)

\* bufio.ScanLines: a trailing carriage return of a line is dropped
dropCR(data) ==
    IF Len(data) > 0 /\ data[Len(data)] = CR
    THEN Slice(data, 0, Len(data) - 1)
    ELSE data

\* loadFile's scanner loop: one line per terminator, and one more for a
\* non-empty rest that no terminator ends
RECURSIVE ScanLoop(_, _, _, _)
ScanLoop(bytes, i, cur, acc) ==
    IF i > Len(bytes)
    THEN IF cur = <<>> THEN acc ELSE Append(acc, dropCR(cur))
    ELSE IF bytes[i] = LF
    THEN ScanLoop(bytes, i + 1, <<>>, Append(acc, dropCR(cur)))
    ELSE ScanLoop(bytes, i + 1, Append(cur, bytes[i]), acc)

\* a load that splits the content at every "\n" and so counts an empty
\* line after the last terminator
loadFile_SplitsOnLF(bytes) ==
    IF bytes = NoFile THEN <<>>
    ELSE IF bytes = <<>> \/ bytes[Len(bytes)] = LF
    THEN Append(ScanLoop(bytes, 1, <<>>, <<>>), <<>>)
    ELSE ScanLoop(bytes, 1, <<>>, <<>>)

loadFile(bytes) == IF bytes = NoFile THEN <<>> ELSE ScanLoop(bytes, 1, <<>>, <<>>)

\* save's writer loop: each line followed by "\n"
RECURSIVE saveBytes(_)
saveBytes(ls) ==
    IF ls = <<>> THEN <<>> ELSE GoAppend(GoAppend(ls[1], <<LF>>), saveBytes(Tail(ls)))

insertLineOk(ls, lineNum) == ~(lineNum < 1 \/ lineNum > Len(ls) + 1)

\* insertLine written as append(append(fe.lines[:index], text),
\* fe.lines[index:]...): the first append overwrites the line at index
\* before the second one reads it
insertLine_Aliased(ls, lineNum, text) ==
    LET index == lineNum - 1
    IN  GoAppend(GoAppend(Slice(ls, 0, index), <<text>>),
                 IF index < Len(ls)
                 THEN GoAppend(<<text>>, Slice(ls, index + 1, Len(ls)))
                 ELSE <<>>)

insertLine(ls, lineNum, text) ==
    LET index == lineNum - 1
    IN  GoAppend(Slice(ls, 0, index), GoAppend(<<text>>, Slice(ls, index, Len(ls))))

deleteLineOk(ls, lineNum) == ~(lineNum < 1 \/ lineNum > Len(ls))

\* deleteLine that truncates the slice by one and moves nothing
deleteLine_DropsLast(ls, lineNum) == Slice(ls, 0, Len(ls) - 1)

deleteLine(ls, lineNum) ==
    LET index == lineNum - 1
    IN  GoAppend(Slice(ls, 0, index), Slice(ls, index + 1, Len(ls)))

replaceLineOk(ls, lineNum) == ~(lineNum < 1 \/ lineNum > Len(ls))

replaceLine(ls, lineNum, text) == [ls EXCEPT ![lineNum] = text]

appendLine(ls, text) == GoAppend(ls, <<text>>)

copyLinesOk(ls, start, end) ==
    ~(start < 1 \/ end < 1 \/ start > Len(ls) \/ end > Len(ls) \/ start > end)

\* copyLines with the slice taken from fe.lines[start:end]
copyLines_OffByOne(ls, start, end) == Slice(ls, start, end)

\* make + copy: the result is a fresh array, so the clipboard shares no
\* memory with fe.lines and a sequence value stands for it
copyLines(ls, start, end) == Slice(ls, start - 1, end)

pasteLinesOk(ls, lineNum) == ~(lineNum < 1 \/ lineNum > Len(ls) + 1)

\* pasteLines written as append(append(fe.lines[:index], lines...),
\* fe.lines[index:]...): the block overwrites the tail before it is read
pasteLines_Aliased(ls, lineNum, block) ==
    LET index == lineNum - 1
        n == Len(ls)
        tail == GoAppend(block, Slice(ls, index + Len(block), n))
    IN  GoAppend(GoAppend(Slice(ls, 0, index), block), Slice(tail, 0, n - index))

pasteLines(ls, lineNum, block) ==
    LET index == lineNum - 1
    IN  GoAppend(Slice(ls, 0, index), GoAppend(block, Slice(ls, index, Len(ls))))

\* search that collects the loop index i, not i+1 (searchLoop counts
\* from 1, so this is the number before the line's)
RECURSIVE searchLoop_ZeroBased(_, _, _, _)
searchLoop_ZeroBased(ls, re, i, found) ==
    IF i > Len(ls) THEN found
    ELSE searchLoop_ZeroBased(ls, re, i + 1,
                    IF MatchString(re, ls[i]) THEN Append(found, i - 1) ELSE found)

\* search: the 1-based numbers of the matching lines, in loop order
RECURSIVE searchLoop(_, _, _, _)
searchLoop(ls, re, i, found) ==
    IF i > Len(ls) THEN found
    ELSE searchLoop(ls, re, i + 1,
                    IF MatchString(re, ls[i]) THEN Append(found, i) ELSE found)

search(ls, re) == searchLoop(ls, re, 1, <<>>)

\* searchAndReplace without the break of the non-global branch
RECURSIVE replaceLoop_NoBreak(_, _, _, _, _, _)
replaceLoop_NoBreak(ls, re, repl, global, i, count) ==
    IF i > Len(ls) THEN [lines |-> ls, count |-> count]
    ELSE IF global
    THEN LET newLine == ReplaceAllString(re, ls[i], repl)
         IN  IF newLine # ls[i]
             THEN replaceLoop_NoBreak([ls EXCEPT ![i] = newLine], re, repl, global,
                                      i + 1, count + 1)
             ELSE replaceLoop_NoBreak(ls, re, repl, global, i + 1, count)
    ELSE IF MatchString(re, ls[i])
    THEN replaceLoop_NoBreak([ls EXCEPT ![i] = ReplaceAllString(re, ls[i], repl)],
                             re, repl, global, i + 1, count + 1)
    ELSE replaceLoop_NoBreak(ls, re, repl, global, i + 1, count)

\* searchAndReplace with a break in the global branch too
RECURSIVE replaceLoop_BreaksEarly(_, _, _, _, _, _)
replaceLoop_BreaksEarly(ls, re, repl, global, i, count) ==
    IF i > Len(ls) THEN [lines |-> ls, count |-> count]
    ELSE IF global
    THEN LET newLine == ReplaceAllString(re, ls[i], repl)
         IN  IF newLine # ls[i]
             THEN [lines |-> [ls EXCEPT ![i] = newLine], count |-> count + 1]
             ELSE replaceLoop_BreaksEarly(ls, re, repl, global, i + 1, count)
    ELSE IF MatchString(re, ls[i])
    THEN [lines |-> [ls EXCEPT ![i] = ReplaceAllString(re, ls[i], repl)],
          count |-> count + 1]
    ELSE replaceLoop_BreaksEarly(ls, re, repl, global, i + 1, count)

\* searchAndReplace's loop from line i on: the lines and the count it ends with
RECURSIVE replaceLoop(_, _, _, _, _, _)
replaceLoop(ls, re, repl, global, i, count) ==
    IF i > Len(ls) THEN [lines |-> ls, count |-> count]
    ELSE IF global
    THEN LET newLine == ReplaceAllString(re, ls[i], repl)
         IN  IF newLine # ls[i]
             THEN replaceLoop([ls EXCEPT ![i] = newLine], re, repl, global, i + 1, count + 1)
             ELSE replaceLoop(ls, re, repl, global, i + 1, count)
    ELSE IF MatchString(re, ls[i])
    THEN [lines |-> [ls EXCEPT ![i] = ReplaceAllString(re, ls[i], repl)],
          count |-> count + 1]
    ELSE replaceLoop(ls, re, repl, global, i + 1, count)

searchAndReplace(ls, re, repl, global) == replaceLoop(ls, re, repl, global, 1, 0)

-----------------------------------------------------------------------------
(* The session: NewFileEditor, then the command loop of main() *)

\* files the session may start on: none, an empty one, terminated lines,
\* and a last line that no terminator ends
InitFiles ==
    {NoFile,
     <<>>,
     <<"a", LF, "b", LF, "a", "b", LF>>,
     <<"a", "a", LF, "b", "a">>,
     <<"b", LF, LF, "a", "b", "a", LF>>,
     <<"a", CR, CR, LF>>,
     <<"a", "a", "b", LF>>}

\* the loop reads the next command line
ReadCommand == pc = "loop" /\ nread < MaxCmds /\ nread' = nread + 1

\* what the last command printed
Out(c, e, m, p) == command' = c /\ err' = e /\ matches' = m /\ prompted' = p

\* NewFileEditor and the start of main on the file f: a file that cannot be
\* opened or read ends the process through log.Fatalf
NewFileEditor(f, outcome) ==
    [lines |-> IF outcome = "ok" THEN loadFile(f) ELSE <<>>,
     pc |-> IF outcome = "ok" THEN "loop" ELSE "done",
     exitCode |-> IF outcome = "ok" THEN 0 - 1 ELSE 1,
     err |-> CASE outcome = "ok" -> ""
               [] outcome = "open" -> "cannot open file"
               [] outcome = "read" -> "error reading file"]

Init ==
    \E f \in InitFiles, outcome \in {"ok", "open", "read"} :
        /\ outcome # "ok" => f # NoFile
        /\ disk = f
        /\ lines = NewFileEditor(f, outcome).lines
        /\ modified = FALSE
        /\ clipboard = <<>>
        /\ pc = NewFileEditor(f, outcome).pc
        /\ exitCode = NewFileEditor(f, outcome).exitCode
        /\ command = ""
        /\ err = NewFileEditor(f, outcome).err
        /\ matches = <<>>
        /\ prompted = FALSE
        /\ nread = 0

\* display, d / help, h
Display ==
    /\ ReadCommand
    /\ \E c \in {"display", "help"} : Out(c, "", <<>>, FALSE)
    /\ UNCHANGED <<lines, modified, clipboard, disk, pc, exitCode>>

\* a command the switch does not know
Unknown ==
    /\ ReadCommand
    /\ Out("unknown", "Unknown command", <<>>, FALSE)
    /\ UNCHANGED <<lines, modified, clipboard, disk, pc, exitCode>>

\* a known command with the wrong number of fields, or with a line number
\* strconv.Atoi rejects: the case prints an error and continues.  paste
\* looks at the clipboard before it parses its number.
BadArgs ==
    /\ ReadCommand
    /\ \E c \in {"insert", "delete", "replace", "append", "search",
                 "substitute", "global", "copy", "paste"},
          e \in {"usage", "not a number"} :
        /\ e = "not a number" => c \in {"insert", "delete", "replace", "copy", "paste"}
        /\ (c = "paste" /\ e = "not a number") => Len(clipboard) # 0
        /\ Out(c, e, <<>>, FALSE)
    /\ UNCHANGED <<lines, modified, clipboard, disk, pc, exitCode>>

Insert(lineNum, text) ==
    /\ ReadCommand
    /\ IF insertLineOk(lines, lineNum)
       THEN /\ lines' = insertLine(lines, lineNum, text)
            /\ modified' = TRUE
            /\ Out("insert", "", <<>>, FALSE)
       ELSE /\ Out("insert", "invalid line number", <<>>, FALSE)
            /\ UNCHANGED <<lines, modified>>
    /\ UNCHANGED <<clipboard, disk, pc, exitCode>>

Delete(lineNum) ==
    /\ ReadCommand
    /\ IF deleteLineOk(lines, lineNum)
       THEN /\ lines' = deleteLine(lines, lineNum)
            /\ modified' = TRUE
            /\ Out("delete", "", <<>>, FALSE)
       ELSE /\ Out("delete", "invalid line number", <<>>, FALSE)
            /\ UNCHANGED <<lines, modified>>
    /\ UNCHANGED <<clipboard, disk, pc, exitCode>>

Replace(lineNum, text) ==
    /\ ReadCommand
    /\ IF replaceLineOk(lines, lineNum)
       THEN /\ lines' = replaceLine(lines, lineNum, text)
            /\ modified' = TRUE
            /\ Out("replace", "", <<>>, FALSE)
       ELSE /\ Out("replace", "invalid line number", <<>>, FALSE)
            /\ UNCHANGED <<lines, modified>>
    /\ UNCHANGED <<clipboard, disk, pc, exitCode>>

\* the append case that leaves the flag as it is
AppendCmd_KeepsFlag(text) ==
    /\ ReadCommand
    /\ lines' = appendLine(lines, text)
    /\ UNCHANGED modified
    /\ Out("append", "", <<>>, FALSE)
    /\ UNCHANGED <<clipboard, disk, pc, exitCode>>

\* append, a
AppendCmd(text) ==
    /\ ReadCommand
    /\ lines' = appendLine(lines, text)
    /\ modified' = TRUE
    /\ Out("append", "", <<>>, FALSE)
    /\ UNCHANGED <<clipboard, disk, pc, exitCode>>

Search(pattern) ==
    /\ ReadCommand
    /\ LET re == Compile(pattern)
       IN  IF re.ok
           THEN Out("search", "", search(lines, re), FALSE)
           ELSE Out("search", "invalid regex pattern", <<>>, FALSE)
    /\ UNCHANGED <<lines, modified, clipboard, disk, pc, exitCode>>

\* substitute (global = FALSE) and global (global = TRUE)
Substitute(pattern, repl, global) ==
    /\ ReadCommand
    /\ LET re == Compile(pattern)
           c == IF global THEN "global" ELSE "substitute"
       IN  IF re.ok
           THEN LET r == searchAndReplace(lines, re, repl, global)
                IN  /\ lines' = r.lines
                    /\ modified' = IF r.count > 0 THEN TRUE ELSE modified
                    /\ Out(c, "", <<>>, FALSE)
           ELSE /\ Out(c, "invalid regex pattern", <<>>, FALSE)
                /\ UNCHANGED <<lines, modified>>
    /\ UNCHANGED <<clipboard, disk, pc, exitCode>>

Copy(start, end) ==
    /\ ReadCommand
    /\ IF copyLinesOk(lines, start, end)
       THEN /\ clipboard' = copyLines(lines, start, end)
            /\ Out("copy", "", <<>>, FALSE)
       ELSE /\ Out("copy", "invalid line range", <<>>, FALSE)
            /\ UNCHANGED clipboard
    /\ UNCHANGED <<lines, modified, disk, pc, exitCode>>

\* the paste case without its look at the clipboard
Paste_NoClipboardCheck(lineNum) ==
    /\ ReadCommand
    /\ IF pasteLinesOk(lines, lineNum)
       THEN /\ lines' = pasteLines(lines, lineNum, clipboard)
            /\ modified' = TRUE
            /\ Out("paste", "", <<>>, FALSE)
       ELSE /\ Out("paste", "invalid line number", <<>>, FALSE)
            /\ UNCHANGED <<lines, modified>>
    /\ UNCHANGED <<clipboard, disk, pc, exitCode>>

Paste(lineNum) ==
    /\ ReadCommand
    /\ IF Len(clipboard) = 0
       THEN /\ Out("paste", "Clipboard is empty", <<>>, FALSE)
            /\ UNCHANGED <<lines, modified>>
       ELSE IF pasteLinesOk(lines, lineNum)
       THEN /\ lines' = pasteLines(lines, lineNum, clipboard)
            /\ modified' = TRUE
            /\ Out("paste", "", <<>>, FALSE)
       ELSE /\ Out("paste", "invalid line number", <<>>, FALSE)
            /\ UNCHANGED <<lines, modified>>
    /\ UNCHANGED <<clipboard, disk, pc, exitCode>>

\* how a call of save can end: os.Create fails, a WriteString or the final
\* Flush fails (only when there is a byte to write), or all of it succeeds
saveOutcomes(ls) ==
    {"ok", "create"} \cup (IF ls # <<>> THEN {"write", "flush"} ELSE {})

\* the lines that reached the file when a write or the flush failed
saveWritten(ls) == 0..(Len(ls) - 1)

\* save with the flag cleared before the writes, not after the flush
save_ClearsFlagFirst(ls, m, d, outcome, k) ==
    CASE outcome = "create" ->
            [modified |-> m, disk |-> d, err |-> "cannot create file"]
      [] outcome = "write" ->
            [modified |-> FALSE, disk |-> saveBytes(Slice(ls, 0, k)),
             err |-> "error writing line"]
      [] outcome = "flush" ->
            [modified |-> FALSE, disk |-> saveBytes(Slice(ls, 0, k)),
             err |-> "error flushing writer"]
      [] outcome = "ok" ->
            [modified |-> FALSE, disk |-> saveBytes(ls), err |-> ""]

\* save: the flag, the file and the error it ends with.  os.Create leaves the
\* file alone when it fails and truncates it when it succeeds.
save(ls, m, d, outcome, k) ==
    CASE outcome = "create" ->
            [modified |-> m, disk |-> d, err |-> "cannot create file"]
      [] outcome = "write" ->
            [modified |-> m, disk |-> saveBytes(Slice(ls, 0, k)),
             err |-> "error writing line"]
      [] outcome = "flush" ->
            [modified |-> m, disk |-> saveBytes(Slice(ls, 0, k)),
             err |-> "error flushing writer"]
      [] outcome = "ok" ->
            [modified |-> FALSE, disk |-> saveBytes(ls), err |-> ""]

\* save, w
Save ==
    /\ ReadCommand
    /\ \E outcome \in saveOutcomes(lines), k \in saveWritten(lines) \cup {0} :
        /\ outcome \in {"ok", "create"} => k = 0
        /\ LET r == save(lines, modified, disk, outcome, k)
           IN  /\ modified' = r.modified
               /\ disk' = r.disk
               /\ Out("save", r.err, <<>>, FALSE)
    /\ UNCHANGED <<lines, clipboard, pc, exitCode>>

\* what the user types at the save prompt; "eof" when scanner.Scan() finds
\* no line there
Responses == {"y", "yes", "n", "eof"}

\* the quit case that exits although the save it was asked for failed
QuitAnswer_ExitsOnFailedSave(response, outcome, k) ==
    /\ ReadCommand
    /\ modified
    /\ outcome \in {"ok", "create"} => k = 0
    /\ IF response \in {"y", "yes"}
       THEN LET r == save(lines, modified, disk, outcome, k)
            IN  /\ modified' = r.modified
                /\ disk' = r.disk
                /\ Out("quit", r.err, <<>>, TRUE)
       ELSE /\ outcome = "ok"
            /\ Out("quit", "", <<>>, TRUE)
            /\ UNCHANGED <<modified, disk>>
    /\ pc' = "done"
    /\ exitCode' = 0
    /\ UNCHANGED <<lines, clipboard>>

\* quit, q with unsaved changes: it asks, reads one more line and saves on
\* y / yes; a failed save continues the loop, everything else ends in
\* os.Exit(0)
QuitAnswer(response, outcome, k) ==
    /\ ReadCommand
    /\ modified
    /\ outcome \in {"ok", "create"} => k = 0
    /\ IF response \in {"y", "yes"}
       THEN LET r == save(lines, modified, disk, outcome, k)
            IN  /\ modified' = r.modified
                /\ disk' = r.disk
                /\ Out("quit", r.err, <<>>, TRUE)
                /\ pc' = IF r.err # "" THEN "loop" ELSE "done"
                /\ exitCode' = IF r.err # "" THEN exitCode ELSE 0
       ELSE /\ outcome = "ok"
            /\ Out("quit", "", <<>>, TRUE)
            /\ pc' = "done"
            /\ exitCode' = 0
            /\ UNCHANGED <<modified, disk>>
    /\ UNCHANGED <<lines, clipboard>>

\* quit, q without unsaved changes: os.Exit(0) at once
QuitClean ==
    /\ ReadCommand
    /\ ~modified
    /\ Out("quit", "", <<>>, FALSE)
    /\ pc' = "done"
    /\ exitCode' = 0
    /\ UNCHANGED <<lines, modified, clipboard, disk>>

\* quit, q
Quit ==
    \/ QuitClean
    \/ \E response \in Responses,
          outcome \in saveOutcomes(lines), k \in saveWritten(lines) \cup {0} :
            QuitAnswer(response, outcome, k)

\* scanner.Scan() returns false at the prompt: the loop ends, and main
\* returns, or ends in log.Fatalf when the scanner holds a read error
Eof ==
    /\ pc = "loop"
    /\ \E inputErr \in BOOLEAN :
        /\ Out("", IF inputErr THEN "Input error" ELSE "", <<>>, FALSE)
        /\ exitCode' = IF inputErr THEN 1 ELSE 0
    /\ pc' = "done"
    /\ UNCHANGED <<lines, modified, clipboard, disk, nread>>

Next ==
    \/ Display
    \/ Unknown
    \/ BadArgs
    \/ \E lineNum \in LineNums(Len(lines)), text \in Texts : Insert(lineNum, text)
    \/ \E lineNum \in LineNums(Len(lines)) : Delete(lineNum)
    \/ \E lineNum \in LineNums(Len(lines)), text \in Texts : Replace(lineNum, text)
    \/ \E text \in Texts : AppendCmd(text)
    \/ \E pattern \in Patterns : Search(pattern)
    \/ \E pattern \in Patterns, repl \in Repls, global \in BOOLEAN :
            Substitute(pattern, repl, global)
    \/ \E start \in LineNums(Len(lines)), end \in LineNums(Len(lines)) : Copy(start, end)
    \/ \E lineNum \in LineNums(Len(lines)) : Paste(lineNum)
    \/ Save
    \/ Quit
    \/ Eof

Spec == Init /\ [][Next]_vars

\* the editor is started again on the same file once the process has ended
\* (nread goes on counting the command lines typed in all the runs)
Reload ==
    /\ pc = "done"
    /\ \E outcome \in {"ok", "open", "read"} :
        /\ outcome # "ok" => disk # NoFile
        /\ lines' = NewFileEditor(disk, outcome).lines
        /\ pc' = NewFileEditor(disk, outcome).pc
        /\ exitCode' = NewFileEditor(disk, outcome).exitCode
        /\ Out("", NewFileEditor(disk, outcome).err, <<>>, FALSE)
    /\ modified' = FALSE
    /\ clipboard' = <<>>
    /\ UNCHANGED <<disk, nread>>

NextReload == Next \/ Reload

SpecReload == Init /\ [][NextReload]_vars

-----------------------------------------------------------------------------
(* Steps of the loop, read off the state pair *)

\* the step dispatched command c and it reported no error
Succeeded(c) == command' = c /\ err' = ""

\* the step ran save to its end: from the save command, or from a quit
\* that was answered y / yes
SavedStep ==
    /\ err' = ""
    /\ disk' = saveBytes(lines)
    /\ \/ command' = "save"
       \/ command' = "quit" /\ prompted'

\* the positions whose line content differs between two buffers of one length
Differing(old, new) == {i \in 1..Len(old) : new[i] # old[i]}

-----------------------------------------------------------------------------
(* C1: over any sequence of commands, every successful insert, delete,     *)
(* replace, append and paste and every substitution that changes a line    *)
(* leaves modified = TRUE; modified falls from TRUE to FALSE only in a     *)
(* step that is a successful save; and no other step changes it.           *)

C1_MutatingSetsFlag ==
    /\ (\E c \in {"insert", "delete", "replace", "append", "paste"} : Succeeded(c))
            => modified'
    /\ ((Succeeded("substitute") \/ Succeeded("global")) /\ lines' # lines)
            => modified'

C1_OnlySaveClears == (modified /\ ~modified') => SavedStep

C1_NothingElseSets ==
    (~modified /\ modified') =>
        \/ \E c \in {"insert", "delete", "replace", "append", "paste"} : Succeeded(c)
        \/ (Succeeded("substitute") \/ Succeeded("global")) /\ lines' # lines

C1_ModifiedTransitions ==
    [][C1_MutatingSetsFlag /\ C1_OnlySaveClears /\ C1_NothingElseSets]_vars

-----------------------------------------------------------------------------
(* C2: a save that fails (the file cannot be created, a line write fails,  *)
(* the final flush fails) reports an error and leaves modified and the     *)
(* line sequence as they were; a save that succeeds sets modified = FALSE  *)
(* and is the only save that does.                                         *)

IOErrors == {"cannot create file", "error writing line", "error flushing writer"}

\* the step called save: the save command, or a quit answered y / yes
\* (every other prompted quit ends the process)
SaveCalled ==
    \/ command' = "save"
    \/ command' = "quit" /\ prompted' /\ (pc' = "loop" \/ disk' # disk \/ ~modified')

C2_FailedSaveKeepsState ==
    [][SaveCalled =>
          /\ lines' = lines
          /\ \/ err' = "" /\ ~modified' /\ disk' = saveBytes(lines)
             \/ err' \in IOErrors /\ modified' = modified]_vars

C2_Witness ==
    /\ command = "save"
    /\ err \in IOErrors
    /\ modified
    /\ lines # <<>>
    /\ disk # saveBytes(lines)

-----------------------------------------------------------------------------
(* C3: the clipboard is empty when the session starts and changes only in  *)
(* a successful copy, where it becomes the lines start..end of the buffer  *)
(* as it is then; every other step (an edit, a substitution, a paste, a    *)
(* failed copy) leaves its content alone, and a copy changes neither the   *)
(* buffer nor modified.                                                    *)

C3_CopyTakesRange(start, end) ==
    LET n == Len(lines)
    IN  IF 1 <= start /\ start <= end /\ end <= n
        THEN /\ err' = ""
             /\ Len(clipboard') = end - start + 1
             /\ \A i \in 1..(end - start + 1) : clipboard'[i] = lines[start + i - 1]
        ELSE /\ err' = "invalid line range"
             /\ clipboard' = clipboard

C3_ClipboardSnapshot ==
    [][/\ nread = 0 => clipboard = <<>>
       /\ clipboard' # clipboard => Succeeded("copy")
       /\ command' = "copy" => lines' = lines /\ modified' = modified
       /\ command' = "copy" =>
              \A start \in LineNums(Len(lines)), end \in LineNums(Len(lines)) :
                  Copy(start, end) => C3_CopyTakesRange(start, end)]_vars

\* a paste went through after a copy of two lines, and the clipboard still
\* holds the two lines
C3_Witness ==
    /\ command = "paste"
    /\ err = ""
    /\ Len(clipboard) = 2
    /\ clipboard[1] # clipboard[2]
    /\ Len(lines) > 3

-----------------------------------------------------------------------------
(* C4: on a buffer of n lines insert(pos, text) succeeds exactly when      *)
(* 1 <= pos <= n + 1; then the buffer has n + 1 lines, text is the line at *)
(* pos, the lines before pos stay and each line at p >= pos moves to       *)
(* p + 1; for any other pos it fails with the invalid-position error.      *)

C4_InsertPost(pos, text) ==
    LET n == Len(lines)
    IN  IF 1 <= pos /\ pos <= n + 1
        THEN /\ err' = ""
             /\ Len(lines') = n + 1
             /\ lines'[pos] = text
             /\ \A p \in 1..(pos - 1) : lines'[p] = lines[p]
             /\ \A p \in pos..n : lines'[p + 1] = lines[p]
        ELSE err' = "invalid line number"

C4_InsertShifts ==
    [][command' = "insert" =>
          \A pos \in LineNums(Len(lines)), text \in Texts :
              Insert(pos, text) => C4_InsertPost(pos, text)]_vars

\* an insert put a new text between two lines of a file
C4_Witness ==
    /\ command = "insert"
    /\ err = ""
    /\ Len(lines) = 4
    /\ lines[2] = <<"b", "b">>
    /\ lines[3] = <<"b">>

-----------------------------------------------------------------------------
(* C5: on a buffer of n lines delete(pos) succeeds exactly when            *)
(* 1 <= pos <= n; then the buffer has n - 1 lines, the lines before pos    *)
(* stay and each line at p > pos moves to p - 1; for any other pos, and    *)
(* for every pos on an empty buffer, it fails with the invalid-position    *)
(* error.                                                                  *)

C5_DeletePost(pos) ==
    LET n == Len(lines)
    IN  IF 1 <= pos /\ pos <= n
        THEN /\ err' = ""
             /\ Len(lines') = n - 1
             /\ \A p \in 1..(pos - 1) : lines'[p] = lines[p]
             /\ \A p \in (pos + 1)..n : lines'[p - 1] = lines[p]
        ELSE err' = "invalid line number"

C5_DeleteShifts ==
    [][command' = "delete" =>
          \A pos \in LineNums(Len(lines)) : Delete(pos) => C5_DeletePost(pos)]_vars

\* a delete took the first of three lines
C5_Witness ==
    /\ command = "delete"
    /\ err = ""
    /\ lines = <<<<"b">>, <<"a", "b">>>>

-----------------------------------------------------------------------------
(* C6: on a buffer of n lines, pasting a non-empty block of k lines at     *)
(* 1 <= pos <= n + 1 gives lines[1..pos-1], then the block in its order,   *)
(* then lines[pos..n], n + k lines in all: the buffer that inserting the   *)
(* block's lines one by one at pos, pos + 1, ..., pos + k - 1 gives.       *)

\* the block's lines from the j-th on, inserted one by one from pos + j - 1
RECURSIVE InsertEach(_, _, _, _)
InsertEach(ls, pos, block, j) ==
    IF j > Len(block) THEN ls
    ELSE InsertEach(insertLine(ls, pos + j - 1, block[j]), pos, block, j + 1)

C6_PastePost(pos) ==
    LET n == Len(lines)
        k == Len(clipboard)
    IN  (k > 0 /\ 1 <= pos /\ pos <= n + 1) =>
            /\ err' = ""
            /\ Len(lines') = n + k
            /\ \A p \in 1..(pos - 1) : lines'[p] = lines[p]
            /\ \A j \in 1..k : lines'[pos + j - 1] = clipboard[j]
            /\ \A p \in pos..n : lines'[p + k] = lines[p]
            /\ lines' = InsertEach(lines, pos, clipboard, 1)

C6_PasteIsBatchInsert ==
    [][command' = "paste" =>
          \A pos \in LineNums(Len(lines)) : Paste(pos) => C6_PastePost(pos)]_vars

\* two different lines were copied and pasted before the last line
C6_Witness ==
    /\ command = "paste"
    /\ err = ""
    /\ Len(clipboard) = 2
    /\ Len(lines) = 5
    /\ lines[3] = clipboard[1]
    /\ lines[4] = clipboard[2]
    /\ clipboard[1] # clipboard[2]
    /\ lines[5] # clipboard[2]

-----------------------------------------------------------------------------
(* What the claims about search and substitution speak of *)

\* the line holds a match of the pattern somewhere (not only as a whole)
ContainsMatch(re, line) ==
    IF re.kind = "star" THEN TRUE
    ELSE \E i \in 0..(Len(line) - Len(re.s)) : Slice(line, i, i + Len(re.s)) = re.s

MatchingLines(re, ls) == {i \in 1..Len(ls) : ContainsMatch(re, ls[i])}

-----------------------------------------------------------------------------
(* C7: substitute in First mode changes at most one line: on the first     *)
(* line, in ascending order, that holds a match it replaces all the        *)
(* matches of that line and stops; the lines before it and after it (one   *)
(* that matches too included) stay, and with no matching line the buffer   *)
(* stays as it is.                                                         *)

C7_FirstPost(pattern, repl) ==
    LET re == Compile(pattern)
        hit == MatchingLines(re, lines)
    IN  re.ok =>
            /\ err' = ""
            /\ Len(lines') = Len(lines)
            /\ IF hit = {}
               THEN lines' = lines
               ELSE /\ lines'[SetMin(hit)] = ReplaceAllString(re, lines[SetMin(hit)], repl)
                    /\ \A i \in 1..Len(lines) : i # SetMin(hit) => lines'[i] = lines[i]

-----------------------------------------------------------------------------
(* C8: substitute in Global mode goes through every line: each line that   *)
(* holds a match gets all its matches replaced, each line without a match  *)
(* stays, the scan does not stop after a changed line, and the number and  *)
(* the order of the lines stay.                                            *)

C8_GlobalPost(pattern, repl) ==
    LET re == Compile(pattern)
    IN  re.ok =>
            /\ err' = ""
            /\ Len(lines') = Len(lines)
            /\ \A i \in 1..Len(lines) :
                  lines'[i] = IF ContainsMatch(re, lines[i])
                              THEN ReplaceAllString(re, lines[i], repl)
                              ELSE lines[i]

C8_GlobalModeEveryLine ==
    [][command' = "global" =>
          \A pattern \in Patterns, repl \in Repls :
              Substitute(pattern, repl, TRUE) => C8_GlobalPost(pattern, repl)]_vars

\* global rewrote the first and the third line and left the one between
C8_Witness ==
    /\ command = "global"
    /\ err = ""
    /\ lines = <<<<"b", "b">>, <<"b">>, <<"b", "b", "b">>>>

-----------------------------------------------------------------------------
(* C9: in both modes the count substitute ends with is the number of lines *)
(* whose content differs after the call, and substitute sets modified =    *)
(* TRUE if and only if that count is above 0: a substitution that alters   *)
(* no line leaves modified as it was.                                      *)

C9_CountPost(pattern, repl, global) ==
    LET re == Compile(pattern)
    IN  re.ok =>
            /\ searchAndReplace(lines, re, repl, global).count
                  = Cardinality(Differing(lines, lines'))
            /\ modified' = (modified \/ Differing(lines, lines') # {})

C9_CountIsLinesChanged ==
    [][command' \in {"substitute", "global"} =>
          \A pattern \in Patterns, repl \in Repls, global \in BOOLEAN :
              Substitute(pattern, repl, global) => C9_CountPost(pattern, repl, global)]_vars

-----------------------------------------------------------------------------
(* C10: search with a valid pattern gives, strictly ascending, exactly the *)
(* 1-based positions of the lines that hold a match; no match gives an     *)
(* empty result and no error; the buffer, modified and the clipboard stay. *)

C10_SearchPost(pattern) ==
    LET re == Compile(pattern)
    IN  re.ok =>
            /\ err' = ""
            /\ \A k \in 1..(Len(matches') - 1) : matches'[k] < matches'[k + 1]
            /\ {matches'[k] : k \in 1..Len(matches')} = MatchingLines(re, lines)
            /\ lines' = lines
            /\ modified' = modified
            /\ clipboard' = clipboard

C10_SearchPositions ==
    [][command' = "search" =>
          \A pattern \in Patterns : Search(pattern) => C10_SearchPost(pattern)]_vars

\* a search found the first and the third of three lines
C10_Witness ==
    /\ command = "search"
    /\ err = ""
    /\ matches = <<1, 3>>
    /\ Len(lines) = 3

-----------------------------------------------------------------------------
(* C11: a command that fails with an invalid position (insert, delete,     *)
(* replace, paste), an invalid range (copy with start > end or an end      *)
(* outside 1..n), an invalid pattern (search, substitute, global) or an    *)
(* empty clipboard (paste before any copy) leaves the buffer, modified and *)
(* the clipboard as they were, and the loop goes on to the next prompt.    *)

RecoverableErrors ==
    {"invalid line number", "invalid line range", "invalid regex pattern",
     "Clipboard is empty"}

C11_Untouched ==
    /\ lines' = lines
    /\ modified' = modified
    /\ clipboard' = clipboard
    /\ pc' = "loop"

\* each kind of bad argument is reported with its error
C11_BadInputFails ==
    LET n == Len(lines)
    IN  /\ command' \in {"insert", "delete", "replace"} =>
              \A pos \in LineNums(n), text \in Texts :
                  /\ (Insert(pos, text) /\ ~(1 <= pos /\ pos <= n + 1))
                        => err' = "invalid line number"
                  /\ (Delete(pos) /\ ~(1 <= pos /\ pos <= n))
                        => err' = "invalid line number"
                  /\ (Replace(pos, text) /\ ~(1 <= pos /\ pos <= n))
                        => err' = "invalid line number"
        /\ command' = "paste" =>
              \A pos \in LineNums(n) :
                  Paste(pos) =>
                      /\ clipboard = <<>> => err' = "Clipboard is empty"
                      /\ (clipboard # <<>> /\ ~(1 <= pos /\ pos <= n + 1))
                            => err' = "invalid line number"
        /\ command' = "copy" =>
              \A start \in LineNums(n), end \in LineNums(n) :
                  (Copy(start, end) /\ ~(1 <= start /\ start <= end /\ end <= n))
                      => err' = "invalid line range"
        /\ command' \in {"search", "substitute", "global"} =>
              \A pattern \in Patterns, repl \in Repls, global \in BOOLEAN :
                  ((Search(pattern) \/ Substitute(pattern, repl, global))
                      /\ ~Compile(pattern).ok) => err' = "invalid regex pattern"

C11_FailedCommandKeepsState ==
    [][/\ err' \in RecoverableErrors => C11_Untouched
       /\ C11_BadInputFails]_vars

\* a paste with nothing copied, on a buffer with unsaved changes
C11_Witness ==
    /\ command = "paste"
    /\ err = "Clipboard is empty"
    /\ modified
    /\ lines # <<>>
    /\ pc = "loop"


\* ---------------------------------------------------------------------
\* C12  save followed by load

\* no line of ls holds the terminator save writes after every line
NoEmbeddedTerminator(ls) ==
    \A i \in 1..Len(ls) : \A j \in 1..Len(ls[i]) : ls[i][j] # LF

\* the process ended by a quit whose prompt was answered with a save that
\* succeeded: the file holds what save wrote for the buffer in memory
SavedAndQuit ==
    /\ pc = "done"
    /\ command = "quit"
    /\ prompted
    /\ ~modified
    /\ err = ""

\* C12: for every buffer whose lines hold no embedded line terminator, a
\* successful save followed by a successful load of the same file gives a
\* line sequence equal to the saved one (same length, content and order)
C12_SaveLoadRoundTrip ==
    [][(SavedAndQuit /\ NoEmbeddedTerminator(lines) /\ pc' = "loop")
          => lines' = lines]_vars

\* ---------------------------------------------------------------------
\* C13  construction from a file name

LoadErrors == {"cannot open file", "error reading file"}

\* the state NewFileEditor and the start of main leave: the prompt with no
\* command read yet, or the process ended by a load error
JustConstructed ==
    /\ command = ""
    /\ pc = "loop" \/ err \in LoadErrors

\* the physical lines of a file: one per terminator, and one more for a
\* non-empty rest after the last terminator
PhysicalLineCount(bytes) ==
    Cardinality({i \in 1..Len(bytes) : bytes[i] = LF})
        + (IF bytes # <<>> /\ bytes[Len(bytes)] # LF THEN 1 ELSE 0)

Terminated(bytes) ==
    IF bytes = <<>> \/ bytes[Len(bytes)] = LF THEN bytes ELSE bytes \o <<LF>>

HasCR(bytes) == \E i \in 1..Len(bytes) : bytes[i] = CR

\* C13: constructing the editor on a file that does not exist succeeds
\* with no lines and modified = false; on a readable file it succeeds with
\* one stored line per physical line and modified = false; on a file that
\* cannot be opened or read it fails, there is no buffer and the process
\* ends with a non-zero status before it accepts a command
C13_Construction ==
    JustConstructed =>
        /\ modified = FALSE
        /\ clipboard = <<>>
        /\ disk = NoFile => err = "" /\ lines = <<>>
        /\ err = "" =>
            /\ pc = "loop"
            /\ disk # NoFile =>
                /\ Len(lines) = PhysicalLineCount(disk)
                /\ ~HasCR(disk) => saveBytes(lines) = Terminated(disk)
        /\ err # "" =>
            /\ disk # NoFile
            /\ lines = <<>>
            /\ pc = "done"
            /\ exitCode > 0
            /\ ~ENABLED ReadCommand

\* a saved file of three or more physical lines, loaded by the next run
C13_Witness ==
    /\ JustConstructed
    /\ err = ""
    /\ disk # NoFile
    /\ Len(lines) >= 3
    /\ nread > 0

\* the construction failed on an existing file
C13_WitnessFatal ==
    /\ JustConstructed
    /\ err \in LoadErrors
    /\ exitCode = 1

\* ---------------------------------------------------------------------
\* C14  insert then delete at the same position

\* ls without its i-th line
RemoveAt(ls, i) == SubSeq(ls, 1, i - 1) \o SubSeq(ls, i + 1, Len(ls))

\* the buffers and texts from which insert(pos, t) gives ls
InsertedFrom(ls, pos) ==
    {x \in {[ls0 |-> RemoveAt(ls, i), t |-> ls[i]] : i \in 1..Len(ls)} :
        /\ insertLineOk(x.ls0, pos)
        /\ insertLine(x.ls0, pos, x.t) = ls}

\* C14: a delete(pos) that comes immediately after a successful
\* insert(pos, t) on a buffer of n lines, for any pos in 1..n+1 and any t,
\* succeeds and restores the line sequence to what it was before the insert
C14_InsertThenDeleteRestores ==
    [][(command = "insert" /\ err = "" /\ command' = "delete") =>
          \A pos \in LineNums(Len(lines)) :
              Delete(pos) =>
                  \A x \in InsertedFrom(lines, pos) :
                      err' = "" /\ lines' = x.ls0]_vars

\* second command of a session, a delete that brought the modified buffer
\* back to the lines that were loaded
C14_Witness ==
    /\ command = "delete"
    /\ err = ""
    /\ nread = 2
    /\ modified
    /\ lines # <<>>
    /\ disk # NoFile
    /\ lines = loadFile(disk)

\* ---------------------------------------------------------------------
\* C15  copy then paste

\* the ranges whose copy is the block in the clipboard
CopiedRanges(ls, block) ==
    {r \in (1..Len(ls)) \X (1..Len(ls)) :
        copyLinesOk(ls, r[1], r[2]) /\ copyLines(ls, r[1], r[2]) = block}

\* a paste step at a valid position that comes immediately after a
\* successful copy step
PasteAfterCopy(pos) ==
    /\ command = "copy"
    /\ err = ""
    /\ pasteLinesOk(lines, pos)
    /\ Paste(pos)

\* C15 as stated: copyRange(start, end) followed by paste(pos) at any valid
\* pos adds exactly end-start+1 lines and leaves the lines at positions
\* start..end of the buffer byte for byte as they were
C15_SourcePositionsUnchanged ==
    [][command' = "paste" =>
          \A pos \in LineNums(Len(lines)) :
              PasteAfterCopy(pos) =>
                  \A r \in CopiedRanges(lines, clipboard) :
                      /\ Len(lines') = Len(lines) + (r[2] - r[1] + 1)
                      /\ \A i \in r[1]..r[2] : lines'[i] = lines[i]]_vars

\* C15 amended: copyRange(start, end) followed by paste(pos) adds exactly
\* k = end-start+1 lines and alters the bytes of no line: the line that was
\* at position i is at i when i < pos and at i+k when i >= pos, and the k
\* lines from pos on are the copied block; so the source range is found
\* unchanged at start..end when pos > end and at start+k..end+k when
\* pos <= start
C15_SourceLinesKept ==
    [][command' = "paste" =>
          \A pos \in LineNums(Len(lines)) :
              PasteAfterCopy(pos) =>
                  \A r \in CopiedRanges(lines, clipboard) :
                      LET k == r[2] - r[1] + 1 IN
                      /\ Len(lines') = Len(lines) + k
                      /\ \A i \in 1..Len(lines) :
                            lines'[IF i < pos THEN i ELSE i + k] = lines[i]
                      /\ \A j \in 1..k : lines'[pos + j - 1] = lines[r[1] + j - 1]
                      /\ pos > r[2] =>
                            \A i \in r[1]..r[2] : lines'[i] = lines[i]
                      /\ pos <= r[1] =>
                            \A i \in r[1]..r[2] : lines'[i + k] = lines[i]]_vars

\* a copy and then a paste in front of the copied line: the first line of
\* the buffer is no longer the first line that was loaded
C15_Witness ==
    /\ command = "paste"
    /\ err = ""
    /\ nread = 2
    /\ disk # NoFile
    /\ lines[1] # loadFile(disk)[1]

\* ---------------------------------------------------------------------
\* C16  global twice

\* the session's first command was global with pattern p and replacement
\* r: the state is the one that call leaves on the loaded buffer
FirstGlobalWas(p, r) ==
    /\ command = "global"
    /\ err = ""
    /\ nread = 1
    /\ Compile(p).ok
    /\ LET first == searchAndReplace(loadFile(disk), Compile(p), r, TRUE)
       IN  lines = first.lines /\ modified = (first.count > 0)

\* the second global p r changes no line and reports 0 lines
SecondGlobalIdle(p, r) ==
    /\ lines' = lines
    /\ modified' = modified
    /\ searchAndReplace(lines, Compile(p), r, TRUE).count = 0

\* C16 as stated: for every valid pattern p and every replacement r that
\* does not itself match p, the second of two consecutive global p r
\* changes no line and reports 0 lines changed
C16_GlobalTwiceIdempotent ==
    [][command' = "global" =>
          \A p \in Patterns, r \in Repls :
              (/\ FirstGlobalWas(p, r)
               /\ ~MatchString(Compile(p), r)
               /\ Substitute(p, r, TRUE)) => SecondGlobalIdle(p, r)]_vars

\* p is one literal character and r holds neither that character nor "$"
PlainSingle(p, r) ==
    /\ Compile(p).kind = "lit"
    /\ Len(p) = 1
    /\ \A j \in 1..Len(r) : r[j] # p[1] /\ r[j] # "$"

\* C16 amended: for a pattern p that is one literal character and a
\* replacement r that holds neither that character nor "$", the second of
\* two consecutive global p r changes no line and reports 0 lines changed
C16_GlobalTwicePlainSingle ==
    [][command' = "global" =>
          \A p \in Patterns, r \in Repls :
              (/\ FirstGlobalWas(p, r)
               /\ PlainSingle(p, r)
               /\ Substitute(p, r, TRUE)) => SecondGlobalIdle(p, r)]_vars

\* global a bb given twice on a loaded buffer that held an "a": the first
\* call changed it, the second found nothing
C16_Witness ==
    /\ command = "global"
    /\ err = ""
    /\ nread = 2
    /\ modified
    /\ disk # NoFile
    /\ lines # loadFile(disk)
    /\ lines = searchAndReplace(loadFile(disk), Compile(<<"a">>), <<"b", "b">>, TRUE).lines

\* ---------------------------------------------------------------------
\* C17  substitute as the README and the usage text describe it

\* line with only its leftmost match of re replaced
FirstMatchOnly(re, line, repl) ==
    LET m == Find(re, line, 0)
    IN  Slice(line, 0, m[1]) \o Expand(repl, line, m) \o Slice(line, m[2], Len(line))

\* ls with only the first match of the buffer replaced
FirstMatchReplaced(ls, re, repl) ==
    IF MatchingLines(re, ls) = {} THEN ls
    ELSE LET i == SetMin(MatchingLines(re, ls))
         IN  [ls EXCEPT ![i] = FirstMatchOnly(re, ls[i], repl)]

\* C17: substitute replaces only the first occurrence of the pattern in the
\* buffer and leaves every other occurrence, on the same line or on later
\* lines, as it was, whereas global replaces all the matches of every line
C17_SubstituteFirstMatchOnly ==
    [][command' \in {"substitute", "global"} =>
          \A p \in Patterns, r \in Repls :
              /\ (Compile(p).ok /\ Substitute(p, r, FALSE)) =>
                    lines' = FirstMatchReplaced(lines, Compile(p), r)
              /\ (Compile(p).ok /\ Substitute(p, r, TRUE)) =>
                    \A i \in 1..Len(lines) :
                        lines'[i] = ReplaceAllString(Compile(p), lines[i], r)]_vars

\* ---------------------------------------------------------------------
\* C18  the warning about unsaved changes

\* C18: the process never ends, by quit or by the end of its input, with
\* modified = true unless its last step asked the user whether to save
C18_WarnsBeforeExit == (pc = "done" /\ modified) => prompted

\* ---------------------------------------------------------------------
\* C20  quit

\* C20: quit with modified = false exits without a prompt and without
\* writing the file.  With modified = true it prompts; on y / yes it saves
\* and exits only when the save succeeded, and after a failed save it is
\* back at the prompt of the command loop with modified still true and
\* the lines intact; on any other answer it exits and the file is not
\* written
C20_QuitBehaviour ==
    [][command' = "quit" =>
          /\ QuitClean =>
                /\ ~prompted'
                /\ pc' = "done" /\ exitCode' = 0
                /\ disk' = disk /\ lines' = lines
          /\ \A response \in Responses, outcome \in saveOutcomes(lines),
                k \in saveWritten(lines) \cup {0} :
                QuitAnswer(response, outcome, k) =>
                    /\ prompted'
                    /\ lines' = lines
                    /\ IF response \in {"y", "yes"}
                       THEN IF outcome = "ok"
                            THEN /\ disk' = saveBytes(lines)
                                 /\ ~modified'
                                 /\ err' = ""
                                 /\ pc' = "done" /\ exitCode' = 0
                            ELSE /\ err' \in IOErrors
                                 /\ pc' = "loop" /\ exitCode' = exitCode
                                 /\ modified'
                       ELSE /\ disk' = disk
                            /\ modified'
                            /\ pc' = "done" /\ exitCode' = 0
          /\ pc' = "done" => err' = ""]_vars

\* quit was answered with y, the save failed after the file had been
\* truncated, and the editor is back in its loop with the changes in memory
C20_Witness ==
    /\ command = "quit"
    /\ prompted
    /\ err = "error writing line"
    /\ pc = "loop"
    /\ modified
    /\ lines # <<>>
    /\ disk # saveBytes(lines)

-----------------------------------------------------------------------------
(* The git tool (a second program of the repository): main and             *)
(* GitOps.run.  Its specification SpecGit uses the process variables pc,   *)
(* exitCode, command (the menu choice), err (how the operation ended) and  *)
(* nread (menu choices typed), and leaves the editor's fields empty.       *)
(* pc is "menu" at the top of run's loop, "eof" at the top of the loop     *)
(* once g.scanner has reached the end of stdin, "done" after the process.  *)

\* the operations of the menu, and Exit
GitOperations ==
    {"1", "2", "3", "4", "5", "6", "7", "8", "9", "10",
     "11", "12", "13", "14", "15", "16", "17", "18", "19", "20"}

\* trimmed lines typed at "Select operation": a menu entry, something else,
\* or an empty line
MenuLines == GitOperations \cup {"0", "x", ""}

\* trimmed lines typed at a handler's prompt or at "Press Enter": empty or not
AnswerLines == {"", "v"}

\* the lines of stdin one pass of the loop can read: the choice, up to two
\* answers and the line for "Press Enter"
GitInputs ==
    {<<>>} \cup
    {<<c>> \o rest : c \in MenuLines,
                     rest \in UNION {[1..n -> AnswerLines] : n \in 0..3}}

\* prompt: g.scanner.Scan() with its result ignored and the trimmed Text(),
\* which is "" when Scan found no line; ins holds the lines still to come
\* and i counts the calls of Scan in this pass
prompt(ins, i) == IF i <= Len(ins) THEN ins[i] ELSE ""

\* the prompts a handler makes when no required input is missing
handlerPrompts(choice) ==
    CASE choice \in {"1", "5", "6", "7", "10", "15", "17"} -> 2
      [] choice \in {"2", "3", "4", "8", "9", "18"} -> 1
      [] OTHER -> 0

\* the prompts whose empty answer makes the handler return "... is required"
handlerRequired(choice) ==
    CASE choice \in {"1", "4", "7", "8", "9", "10"} -> {1}
      [] choice = "15" -> {1, 2}
      [] OTHER -> {}

\* a handler (or the executeGit call of the cases without one) on the
\* lines ins, whose first line was the choice: the prompts it made and
\* whether it got as far as executeGit
handler(choice, ins) ==
    IF 1 \in handlerRequired(choice) /\ prompt(ins, 2) = ""
    THEN [prompts |-> 1, runsGit |-> FALSE]
    ELSE IF 2 \in handlerRequired(choice) /\ prompt(ins, 3) = ""
    THEN [prompts |-> 2, runsGit |-> FALSE]
    ELSE [prompts |-> handlerPrompts(choice), runsGit |-> TRUE]

\* the fields of the editor, which the git tool does not have
EditorFields == <<lines, modified, clipboard, disk, matches, prompted>>

\* main: exec.LookPath("git") fails and log.Fatal ends the process, or run
\* starts
GitInit ==
    /\ lines = <<>>
    /\ modified = FALSE
    /\ clipboard = <<>>
    /\ disk = NoFile
    /\ matches = <<>>
    /\ prompted = FALSE
    /\ command = ""
    /\ nread = 0
    /\ \E found \in BOOLEAN :
        /\ pc = IF found THEN "menu" ELSE "done"
        /\ exitCode = IF found THEN 0 - 1 ELSE 1
        /\ err = IF found THEN "" ELSE "git not found"

\* one pass of run's loop reads the lines ins and calls Scan scans times:
\* with fewer lines than calls the scanner has reached the end of stdin
ReadPass(ins, scans) ==
    /\ pc \in {"menu", "eof"}
    /\ pc = "eof" => ins = <<>>
    /\ Len(ins) <= scans
    /\ ins # <<>> => nread < MaxCmds
    /\ nread' = IF ins # <<>> THEN nread + 1 ELSE nread
    /\ command' = prompt(ins, 1)

\* case "0": run returns, main returns
GitExit(ins) ==
    /\ prompt(ins, 1) = "0"
    /\ ReadPass(ins, 1)
    /\ pc' = "done"
    /\ exitCode' = 0
    /\ err' = ""
    /\ UNCHANGED EditorFields

\* default: "Invalid choice", continue
GitInvalid(ins) ==
    /\ prompt(ins, 1) \notin GitOperations \cup {"0"}
    /\ ReadPass(ins, 1)
    /\ pc' = IF Len(ins) = 1 THEN "menu" ELSE "eof"
    /\ err' = "Invalid choice"
    /\ UNCHANGED exitCode
    /\ UNCHANGED EditorFields

\* cases "1" to "20": the handler, executeGit (gitOk: cmd.Run() returned
\* nil), the error logged, "Press Enter to continue..." and one more Scan
GitOperation(ins, gitOk) ==
    /\ prompt(ins, 1) \in GitOperations
    /\ LET h == handler(prompt(ins, 1), ins)
           scans == 1 + h.prompts + 1
       IN  /\ ReadPass(ins, scans)
           /\ ~h.runsGit => gitOk
           /\ pc' = IF Len(ins) = scans THEN "menu" ELSE "eof"
           /\ err' = IF ~h.runsGit THEN "input required"
                     ELSE IF gitOk THEN "" ELSE "git failed"
    /\ UNCHANGED exitCode
    /\ UNCHANGED EditorFields

GitNext ==
    \/ \E ins \in GitInputs : GitExit(ins)
    \/ \E ins \in GitInputs : GitInvalid(ins)
    \/ \E ins \in GitInputs, gitOk \in BOOLEAN : GitOperation(ins, gitOk)

SpecGit == GitInit /\ [][GitNext]_vars

\* ---------------------------------------------------------------------
\* C19  exit codes of the git tool

\* C19: the git tool exits with code 1 when git is not found in PATH, with
\* a code greater than 1 when the git command it has just run failed, and
\* with code 0 otherwise
C19_ExitCodes ==
    /\ [](pc = "done" /\ err = "git not found" => exitCode = 1)
    /\ [][pc' = "done" =>
            IF err = "git failed" THEN exitCode' > 1 ELSE exitCode' = 0]_vars

\* ---------------------------------------------------------------------
\* C21  a clear flag means the lines of the last load or save

\* the session has just loaded its file: no command read yet
JustLoaded == nread = 0 /\ pc = "loop" /\ command = ""

\* C21: in every state of a session, modified = false implies that the
\* lines are those of the most recent successful load or successful save.
\* Stated step by step: the session starts with the flag clear on the
\* lines it loaded; a step that ends with the flag clear has not changed
\* the lines, and it either started with the flag clear (the lines were
\* already those of the last load or save) or was a successful save of
\* these lines
C21_CleanMeansSaved ==
    /\ [](JustLoaded => ~modified /\ lines = loadFile(disk))
    /\ [][~modified' =>
            /\ lines' = lines
            /\ ~modified \/ SavedStep]_vars

\* an edit of a loaded file and then a save: the flag is clear on lines
\* that are not the loaded ones, and the file holds them
C21_Witness ==
    /\ command = "save"
    /\ err = ""
    /\ nread = 2
    /\ ~modified
    /\ Len(lines) = 4
    /\ disk = saveBytes(lines)

\* ---------------------------------------------------------------------
\* C22  the git tool after the end of its input

\* run's loop never waits once stdin has ended (Scan returns false at
\* once), and with input left the pass goes on when the line arrives: the
\* loop keeps taking the passes it can take
SpecGitFair == SpecGit /\ WF_vars(GitNext)

\* C22: once stdin is exhausted the menu loop of the git tool eventually
\* terminates; it does not show the menu and read an empty choice forever
C22_TerminatesAfterEof == (pc = "eof") ~> (pc = "done")
=============================================================================
